---- MODULE Spec2Model ----
(***************************************************************************)
(* Util.resolveArgs (src/src/Util.js): resolution of a run-time argument   *)
(* list against a list of argument specs ('foo', '?foo', check function).  *)
(*                                                                         *)
(* JavaScript values are records [t |-> typeof, s |-> characters]; a       *)
(* string is the sequence of its characters, so charAt and substring are   *)
(* computed and not assumed.  Arrays are sequences; the cursors and the    *)
(* split indices are 0-based as in the source and At reads an element.     *)
(***************************************************************************)
EXTENDS Integers, Sequences, FiniteSets, Bags, TLC

MaxSpecs == 3
MaxArgs == 3

----------------------------------------------------------------------------
(* JavaScript values *)

Str(chars) == [t |-> "string", s |-> chars]
Undefined == [t |-> "undefined", s |-> <<>>]
Null == [t |-> "null", s |-> <<>>]
Num1 == [t |-> "number", s |-> <<"1">>]
Num2 == [t |-> "number", s |-> <<"2">>]
Text == Str(<<"t", "e", "x", "t">>)
Num5 == [t |-> "number", s |-> <<"5">>]
isNumber == [t |-> "function", s |-> <<"isNumber">>]
isString == [t |-> "function", s |-> <<"isString">>]

Values == {Undefined, Null, Num1, Num2, Text}

Min(a, b) == IF a < b THEN a ELSE b
Max(a, b) == IF a > b THEN a ELSE b

\* arr[i] with a 0-based index: reading past the end gives undefined
At(arr, i) == IF i >= 0 /\ i < Len(arr) THEN arr[i + 1] ELSE Undefined

\* str.charAt(0): the empty string when there is no such character
charAt0(chars) == IF Len(chars) > 0 THEN <<chars[1]>> ELSE <<>>

\* str.substring(1)
substring1(chars) == SubSeq(chars, 2, Len(chars))

\* truthiness of a value used as a name: a non-empty string
Truthy(v) == v.t = "string" /\ v.s # <<>>

\* the property key a value is converted to in result[name]
ToKey(v) ==
  CASE v.t = "string" -> v.s
    [] v.t = "null" -> <<"n", "u", "l", "l">>
    [] v.t = "undefined" -> <<"u", "n", "d", "e", "f", "i", "n", "e", "d">>
    [] OTHER -> v.s

\* the check functions passed as specs:
\*   function (arg) { return typeof arg === 'number' ? 'x' : null; }
\*   function (arg) { if (typeof arg === 'string') return 'y'; }
Apply(fn, arg) ==
  IF fn = isNumber
  THEN (IF arg.t = "number" THEN Str(<<"x">>) ELSE Null)
  ELSE (IF arg.t = "string" THEN Str(<<"y">>) ELSE Undefined)

\* arr.slice(start, end)
slice(arr, start, end) ==
  LET n == Len(arr)
      k == IF start < 0 THEN Max(n + start, 0) ELSE Min(start, n)
      final == IF end < 0 THEN Max(n + end, 0) ELSE Min(end, n)
  IN SubSeq(arr, k + 1, final)

\* arr.reverse()
reverse(arr) == [i \in 1..Len(arr) |-> arr[Len(arr) - i + 1]]

----------------------------------------------------------------------------
(* Private helpers of Util *)

isRequired(spec) == spec.t = "string" /\ charAt0(spec.s) # <<"?">>

RECURSIVE findFrom(_, _, _)
findFrom(arr, first, i) ==
  IF i >= Len(arr) THEN 0
  ELSE IF isRequired(At(arr, i)) # first THEN i
  ELSE findFrom(arr, first, i + 1)

RECURSIVE findSameFrom(_, _, _)
findSameFrom(arr, first, i) ==
  IF i >= Len(arr) THEN 0
  ELSE IF isRequired(At(arr, i)) = first THEN i
  ELSE findSameFrom(arr, first, i + 1)

\* the comparison with the first element inverted
findSame(arr) == findSameFrom(arr, isRequired(At(arr, 0)), 1)

\* null is returned as 0: the caller only tests it with !, and the loop
\* starts at 1, so no index it returns is 0
findTurningPoint(arr) == findFrom(arr, isRequired(At(arr, 0)), 1)

\* the tail moved to the front as it is
prepareRotate(arr, splitAt) ==
  [ret |-> slice(arr, splitAt, Len(arr)) \o slice(arr, 0, splitAt),
   arr |-> arr]

\* the head taken one element too long
prepareOverlap(arr, splitAt) ==
  [ret |-> reverse(slice(arr, splitAt, Len(arr))) \o slice(arr, 0, splitAt + 1),
   arr |-> arr]

\* splice in the place of slice: the tail is cut out of the array passed in
prepareSplice(arr, splitAt) ==
  [ret |-> reverse(slice(arr, splitAt, Len(arr))) \o slice(arr, 0, splitAt),
   arr |-> SubSeq(arr, 1, Len(arr) - Len(slice(arr, splitAt, Len(arr))))]

\* ret is the array returned, arr the array passed in as the call leaves it
prepare(arr, splitAt) ==
  [ret |-> reverse(slice(arr, splitAt, Len(arr))) \o slice(arr, 0, splitAt),
   arr |-> arr]

----------------------------------------------------------------------------
(* Inputs *)

Letter(i) == <<"a", "b", "c", "d", "e">>[i]

\* the spec entries offered at position i of a spec list
SpecsAt(i) ==
  {Str(<<Letter(i)>>), Str(<<"?", Letter(i)>>), Str(<<"?">>),
   isNumber, isString, Num5}

RECURSIVE SpecListsOf(_)
SpecListsOf(len) ==
  IF len = 0 THEN {<<>>}
  ELSE {Append(l, e) : l \in SpecListsOf(len - 1), e \in SpecsAt(len)}

SpecLists == UNION {SpecListsOf(len) : len \in 0..MaxSpecs}

\* argument lists of pairwise different values
RECURSIVE ArgListsOf(_)
ArgListsOf(len) ==
  IF len = 0 THEN {<<>>}
  ELSE UNION {{Append(l, v) : v \in Values \ {l[i] : i \in 1..Len(l)}} :
                l \in ArgListsOf(len - 1)}

ArgLists == UNION {ArgListsOf(len) : len \in 0..MaxArgs}

----------------------------------------------------------------------------
(* resolveArgs *)

VARIABLES args, specs, preparedSpecs, preparedArgs, turningPoint,
          specIndex, argIndex, result, pc, callNo, first, bindings

vars == <<args, specs, preparedSpecs, preparedArgs, turningPoint,
          specIndex, argIndex, result, pc, callNo, first, bindings>>

EmptyObject == [k \in {} |-> Undefined]

\* obj[key] = value
Put(obj, key, value) ==
  [k \in DOMAIN obj \cup {key} |-> IF k = key THEN value ELSE obj[k]]

Init ==
  /\ args \in ArgLists
  /\ specs \in SpecLists
  /\ preparedSpecs = <<>>
  /\ preparedArgs = <<>>
  /\ turningPoint = 0
  /\ specIndex = 0
  /\ argIndex = 0
  /\ result = EmptyObject
  /\ pc = "call"
  /\ callNo = 1
  /\ first = EmptyObject
  /\ bindings = <<>>

\* the split taken from the two lengths alone
argsSplitAtLengths(a, sp, tp) == Len(a) - Len(sp)

\* the split taken from the turning point alone
argsSplitAtTurningPoint(a, sp, tp) == Len(a) - tp

\* line 170: the index the argument list is split at
argsSplitAt(a, sp, tp) == Len(a) - (Len(sp) - tp)

\* the negation of the turning point test dropped
InOrderUnlessNull(sp) == isRequired(At(sp, 0)) \/ findTurningPoint(sp) # 0

\* line 164: the specs are taken in their given order (turningPoint is then
\* undefined or null, both 0 here)
InOrder(sp) == isRequired(At(sp, 0)) \/ findTurningPoint(sp) = 0

PrepareInOrder ==
  /\ pc = "call"
  /\ InOrder(specs)
  /\ turningPoint' = 0
  /\ preparedSpecs' = specs
  /\ preparedArgs' = args
  /\ result' = EmptyObject
  /\ specIndex' = 0
  /\ argIndex' = 0
  /\ bindings' = <<>>
  /\ pc' = "walk"
  /\ UNCHANGED <<args, specs, callNo, first>>

PrepareRotated ==
  /\ pc = "call"
  /\ ~InOrder(specs)
  /\ LET tp == findTurningPoint(specs)
         ps == prepare(specs, tp)
         pa == prepare(args, argsSplitAt(args, specs, tp))
     IN /\ turningPoint' = tp
        /\ preparedSpecs' = ps.ret
        /\ specs' = ps.arr
        /\ preparedArgs' = pa.ret
        /\ args' = pa.arr
  /\ result' = EmptyObject
  /\ specIndex' = 0
  /\ argIndex' = 0
  /\ bindings' = <<>>
  /\ pc' = "walk"
  /\ UNCHANGED <<callNo, first>>

\* the argument cursor left out of the loop condition
ContinueSpecs(si, ai, ps, pa) == si < Len(ps)

\* the loop condition of line 174
Continue(si, ai, ps, pa) == si < Len(ps) /\ ai < Len(pa)

spec == At(preparedSpecs, specIndex)
arg == At(preparedArgs, argIndex)

\* line 180
nameOf(sp, a) ==
  IF sp.t = "function" THEN Apply(sp, a)
  ELSE IF charAt0(sp.s) # <<"?">> THEN sp ELSE Str(substring1(sp.s))

Bind(key) ==
  /\ result' = Put(result, key, arg)
  /\ argIndex' = argIndex + 1
  /\ bindings' = Append(bindings, [spec |-> specIndex, arg |-> argIndex, key |-> key])

StepRequired ==
  /\ pc = "walk"
  /\ Continue(specIndex, argIndex, preparedSpecs, preparedArgs)
  /\ isRequired(spec)
  /\ Bind(spec.s)
  /\ specIndex' = specIndex + 1
  /\ UNCHANGED <<args, specs, preparedSpecs, preparedArgs, turningPoint, pc, callNo, first>>

\* spec.charAt is not a function
Throws(sp) == sp.t # "function" /\ sp.t # "string"

\* the test of line 181 left out
TakesAlways(name, a) == TRUE

\* an undefined argument is never taken
TakesDefined(name, a) == Truthy(name) /\ a # Undefined

\* line 181
Takes(name, a) == Truthy(name) \/ a = Undefined

StepOptionalBind ==
  /\ pc = "walk"
  /\ Continue(specIndex, argIndex, preparedSpecs, preparedArgs)
  /\ ~isRequired(spec)
  /\ ~Throws(spec)
  /\ Takes(nameOf(spec, arg), arg)
  /\ Bind(ToKey(nameOf(spec, arg)))
  /\ specIndex' = specIndex + 1
  /\ UNCHANGED <<args, specs, preparedSpecs, preparedArgs, turningPoint, pc, callNo, first>>

StepOptionalSkip ==
  /\ pc = "walk"
  /\ Continue(specIndex, argIndex, preparedSpecs, preparedArgs)
  /\ ~isRequired(spec)
  /\ ~Throws(spec)
  /\ ~Takes(nameOf(spec, arg), arg)
  /\ specIndex' = specIndex + 1
  /\ UNCHANGED <<args, specs, preparedSpecs, preparedArgs, turningPoint, argIndex,
                 result, pc, callNo, first, bindings>>

StepThrow ==
  /\ pc = "walk"
  /\ Continue(specIndex, argIndex, preparedSpecs, preparedArgs)
  /\ ~isRequired(spec)
  /\ Throws(spec)
  /\ pc' = "threw"
  /\ UNCHANGED <<args, specs, preparedSpecs, preparedArgs, turningPoint, specIndex,
                 argIndex, result, callNo, first, bindings>>

Return ==
  /\ pc = "walk"
  /\ ~Continue(specIndex, argIndex, preparedSpecs, preparedArgs)
  /\ pc' = "done"
  /\ UNCHANGED <<args, specs, preparedSpecs, preparedArgs, turningPoint, specIndex,
                 argIndex, result, callNo, first, bindings>>

\* the caller resolves the same two lists once more
CallAgain ==
  /\ pc = "done"
  /\ callNo = 1
  /\ first' = result
  /\ callNo' = 2
  /\ pc' = "call"
  /\ UNCHANGED <<args, specs, preparedSpecs, preparedArgs, turningPoint, specIndex,
                 argIndex, result, bindings>>

Next ==
  \/ PrepareInOrder
  \/ PrepareRotated
  \/ StepRequired
  \/ StepOptionalBind
  \/ StepOptionalSkip
  \/ StepThrow
  \/ Return
  \/ CallAgain

Spec == Init /\ [][Next]_vars

----------------------------------------------------------------------------
(* Vocabulary of the properties *)

N == Len(specs)
n == Len(args)

\* a 'foo' or '?foo' entry with a non-empty name
PlainName(sp) == sp.t = "string" /\ sp.s # <<>> /\ sp.s # <<"?">>
Optional(sp) == sp.t = "string" /\ Len(sp.s) > 0 /\ sp.s[1] = "?"
Required(sp) == sp.t = "string" /\ ~Optional(sp)
NameIn(sp) == IF Optional(sp) THEN Tail(sp.s) ELSE sp.s

DistinctNames ==
  \A i, j \in 1..N : NameIn(specs[i]) = NameIn(specs[j]) => i = j

Has(key, value) == key \in DOMAIN result /\ result[key] = value

\* the lists of C1: plain names, a required name first or one kind throughout
PlainInOrder ==
  /\ \A i \in 1..N : PlainName(specs[i])
  /\ DistinctNames
  /\ \/ N = 0
     \/ Required(specs[1])
     \/ \A i \in 1..N : Optional(specs[i])

\* C1: a list of N distinct plain names that starts with a required name or
\* is of one kind binds name i to args[i] for i < min(N, n), whatever the
\* value is, and has no other key: later names are absent, later arguments
\* are ignored.
C1_InOrderBinding ==
  (pc = "done" /\ PlainInOrder) =>
     /\ DOMAIN result = {NameIn(specs[i]) : i \in 1..Min(N, n)}
     /\ \A i \in 1..Min(N, n) : result[NameIn(specs[i])] = args[i]

C1_Witness ==
  /\ pc = "done" /\ PlainInOrder
  /\ N = 3 /\ n = 2
  /\ Required(specs[1]) /\ Optional(specs[2])
  /\ args[2] = Undefined
  /\ Has(<<"b">>, Undefined)

\* the lists of C2: k >= 1 optional names, then m >= 1 required names
OptionalFirst(k) ==
  /\ k >= 1 /\ k < N
  /\ \A i \in 1..N : PlainName(specs[i])
  /\ DistinctNames
  /\ \A i \in 1..k : Optional(specs[i])
  /\ \A i \in (k + 1)..N : Required(specs[i])

\* C2: with k optional names followed by m required names and n >= m
\* arguments, required name j is bound to args[n-m+j] and optional name i to
\* args[i] exactly when i < n-m; ['?a','b'] with [1,2] gives {a: 1, b: 2}.
C2_OptionalFirstBinding ==
  \A k \in 1..N :
    (pc = "done" /\ OptionalFirst(k) /\ n >= N - k) =>
       LET m == N - k IN
       /\ \A j \in 1..m : Has(NameIn(specs[k + j]), args[n - m + j])
       /\ \A i \in 1..k :
            IF i <= n - m THEN Has(NameIn(specs[i]), args[i])
            ELSE NameIn(specs[i]) \notin DOMAIN result
       /\ (specs = <<Str(<<"?", "a">>), Str(<<"b">>)>> /\ args = <<Num1, Num2>>)
            => result = Put(Put(EmptyObject, <<"a">>, Num1), <<"b">>, Num2)

C2_Witness ==
  /\ pc = "done" /\ OptionalFirst(1)
  /\ N = 3 /\ n = 3
  /\ Has(<<"a">>, args[1]) /\ Has(<<"b">>, args[2]) /\ Has(<<"c">>, args[3])

OptOptReq == <<Str(<<"?", "a">>), Str(<<"?", "b">>), Str(<<"c">>)>>

\* C3 as stated: ['?a','?b','c'] with [1,2] has its turning point at 2,
\* processes c first and binds c to 1.
C3_AsStated ==
  (pc = "done" /\ specs = OptOptReq /\ args = <<Num1, Num2>>) =>
     /\ turningPoint = 2
     /\ At(preparedSpecs, 0) = Str(<<"c">>)
     /\ Has(<<"c">>, Num1)

\* C3: ['?a','?b','c'] with [1,2] has its turning point at 2, processes c
\* first and binds c to 2, the last argument; a is bound to 1 and b is absent.
C3_RequiredTakesLast ==
  (pc = "done" /\ specs = OptOptReq /\ args = <<Num1, Num2>>) =>
     /\ turningPoint = 2
     /\ At(preparedSpecs, 0) = Str(<<"c">>)
     /\ bindings[1] = [spec |-> 0, arg |-> 0, key |-> <<"c">>]
     /\ result = Put(Put(EmptyObject, <<"c">>, Num2), <<"a">>, Num1)

C3_Witness ==
  /\ pc = "done" /\ specs = OptOptReq /\ args = <<Num1, Num2>>
  /\ Has(<<"c">>, Num2)

\* C4 as stated: [fn, 'b'] with ['text', 2], fn naming only numbers: fn
\* rejects 'text' without the argument cursor advancing and b is bound to
\* 'text'.
C4_AsStated ==
  (pc = "done" /\ specs = <<isNumber, Str(<<"b">>)>> /\ args = <<Text, Num2>>) =>
     /\ At(preparedArgs, argIndex) = Text
     /\ Has(<<"b">>, Text)

\* C4: [fn, 'b'] with ['text', 2] is resolved on the rotated path: b is
\* processed first and bound to 2, the last argument; fn is then offered
\* 'text' and rejects it without the argument cursor advancing, and the
\* mapping is exactly {b: 2}.
C4_RequiredBoundToLast ==
  (pc = "done" /\ specs = <<isNumber, Str(<<"b">>)>> /\ args = <<Text, Num2>>) =>
     /\ turningPoint = 1
     /\ bindings = <<[spec |-> 0, arg |-> 0, key |-> <<"b">>]>>
     /\ specIndex = 2 /\ argIndex = 1
     /\ At(preparedSpecs, 1) = isNumber /\ At(preparedArgs, argIndex) = Text
     /\ result = Put(EmptyObject, <<"b">>, Num2)

C4_Witness ==
  /\ pc = "done" /\ specs = <<isNumber, Str(<<"b">>)>> /\ args = <<Text, Num2>>
  /\ Has(<<"b">>, Num2)

\* a check function is offered the current argument and returns no name
PredicateRejects ==
  /\ pc = "walk"
  /\ Continue(specIndex, argIndex, preparedSpecs, preparedArgs)
  /\ spec.t = "function"
  /\ ~Truthy(Apply(spec, arg))

\* the spec index of the binding before bindings[i], -1 when there is none
PreviousSpec(i) == IF i = 1 THEN -1 ELSE bindings[i - 1].spec

\* an argument taken by an accepting check function was accepted by no
\* check function offered it before
FirstAcceptorTakes(Counts(_)) ==
  \A i \in DOMAIN bindings :
    LET sp == At(preparedSpecs, bindings[i].spec)
        a == At(preparedArgs, bindings[i].arg)
    IN (sp.t = "function" /\ Counts(a)) =>
         \A j \in (PreviousSpec(i) + 1)..(bindings[i].spec - 1) :
           At(preparedSpecs, j).t = "function"
             => ~Truthy(Apply(At(preparedSpecs, j), a))

EveryStepAdvancesSpec ==
  (pc = "walk" /\ pc' = "walk") => specIndex' = specIndex + 1

AnyValue(a) == TRUE
Defined(a) == a # Undefined

\* C5 as stated: whenever a check function returns no name for the current
\* argument, undefined and null included, no key is added and the argument
\* cursor stays; the spec cursor advances in every step; so an argument is
\* consumed in a run of check functions only by the first that accepts it.
C5_AsStated ==
  /\ [][/\ PredicateRejects => (result' = result /\ argIndex' = argIndex)
        /\ EveryStepAdvancesSpec]_vars
  /\ [](pc # "call" =>
          /\ FirstAcceptorTakes(AnyValue)
          /\ \A i \in DOMAIN bindings :
               At(preparedSpecs, bindings[i].spec).t = "function"
                 => Truthy(Apply(At(preparedSpecs, bindings[i].spec),
                                 At(preparedArgs, bindings[i].arg))))

\* the key a rejected undefined argument is stored under
StringForm(v) ==
  IF v = Null THEN <<"n", "u", "l", "l">>
  ELSE <<"u", "n", "d", "e", "f", "i", "n", "e", "d">>

\* C5: whenever a check function returns no name for a current argument
\* other than undefined (null included), no key is added and the argument
\* cursor stays, so the same argument is offered to the next spec; an
\* undefined argument is bound under the string form of what the function
\* returned and the argument cursor advances; the spec cursor advances in
\* every step; an argument other than undefined is consumed in a run of
\* check functions only by the first that accepts it.
C5_RejectKeepsArgument ==
  /\ [][/\ (PredicateRejects /\ arg # Undefined)
             => (result' = result /\ argIndex' = argIndex)
        /\ (PredicateRejects /\ arg = Undefined)
             => /\ result' = Put(result, StringForm(Apply(spec, arg)), Undefined)
                /\ argIndex' = argIndex + 1
        /\ EveryStepAdvancesSpec]_vars
  /\ [](pc # "call" =>
          /\ FirstAcceptorTakes(Defined)
          /\ \A i \in DOMAIN bindings :
               (/\ At(preparedSpecs, bindings[i].spec).t = "function"
                /\ At(preparedArgs, bindings[i].arg) # Undefined)
                 => Truthy(Apply(At(preparedSpecs, bindings[i].spec),
                                 At(preparedArgs, bindings[i].arg))))

C5_Witness ==
  /\ pc = "done"
  /\ specs = <<isNumber, isString, isNumber>>
  /\ args = <<Text, Undefined>>
  /\ bindings = <<[spec |-> 1, arg |-> 0, key |-> <<"y">>],
                  [spec |-> 2, arg |-> 1, key |-> <<"n", "u", "l", "l">>]>>

NameSpecs == \A i \in 1..N : specs[i].t = "string"

CursorAtEnd == specIndex = Len(preparedSpecs) \/ argIndex = Len(preparedArgs)

\* C7: with required and optional names in any order and an argument list
\* of any length, no error is raised, the walk takes at most len(specs)
\* steps, each advancing the spec cursor, and it returns as soon as either
\* cursor is at the end of its list.
C7_NoErrorBoundedWalk ==
  /\ [](NameSpecs =>
          /\ pc # "threw"
          /\ pc # "call" => (specIndex <= N /\ Len(preparedSpecs) = N)
          /\ pc = "done" => CursorAtEnd)
  /\ [][(NameSpecs /\ pc = "walk") =>
          /\ CursorAtEnd => pc' = "done"
          /\ ~CursorAtEnd => (pc' = "walk" /\ specIndex' = specIndex + 1)]_vars

C7_Witness ==
  /\ pc = "done" /\ NameSpecs
  /\ N = 3 /\ n = 1
  /\ Optional(specs[1]) /\ Required(specs[2]) /\ Optional(specs[3])
  /\ specIndex = 1 /\ argIndex = 1

\* the call took the path of lines 168-170
Rotated == pc # "call" /\ turningPoint > 0

\* C8 as stated: on the rotated path the prepared specs are specs[tp..]
\* followed by specs[0..tp), both in their original order, and the prepared
\* arguments are a rotation of args that keeps the order inside each segment.
C8_AsStated ==
  Rotated =>
    /\ preparedSpecs = SubSeq(specs, turningPoint + 1, N) \o SubSeq(specs, 1, turningPoint)
    /\ \E t \in 0..n :
         preparedArgs = SubSeq(args, n - t + 1, n) \o SubSeq(args, 1, n - t)

\* C8: on the rotated path the prepared specs are specs[tp..] in reverse
\* order followed by specs[0..tp) in their original order, and the prepared
\* arguments are a trailing slice of args in reverse order followed by the
\* leading rest in its original order.
C8_TailReversed ==
  Rotated =>
    /\ Len(preparedSpecs) = N
    /\ \A i \in 0..(N - 1) :
         At(preparedSpecs, i) = IF i < N - turningPoint THEN At(specs, N - 1 - i)
                                ELSE At(specs, i - (N - turningPoint))
    /\ Len(preparedArgs) = n
    /\ \E t \in 0..n :
         \A i \in 0..(n - 1) :
           At(preparedArgs, i) = IF i < t THEN At(args, n - 1 - i) ELSE At(args, i - t)

C8_Witness ==
  /\ pc = "done"
  /\ turningPoint = 1 /\ N = 3 /\ n = 3
  /\ preparedSpecs = <<specs[3], specs[2], specs[1]>>
  /\ preparedArgs = <<args[3], args[2], args[1]>>

\* the last t arguments are at the front of the prepared list and the
\* first n - t follow them in their order
MovedToFront(t) ==
  /\ t \in 0..n
  /\ Len(preparedArgs) = n
  /\ {preparedArgs[i] : i \in 1..t} = {args[i] : i \in (n - t + 1)..n}
  /\ SubSeq(preparedArgs, t + 1, n) = SubSeq(args, 1, n - t)

Count(seq, v) == Cardinality({i \in 1..Len(seq) : seq[i] = v})

\* C10: in the walk 0 <= argIndex <= specIndex; the prepared arguments are a
\* permutation of args; no argument position is bound twice and every bound
\* value is an element of args; the mapping has at most
\* min(len(specs), len(args)) keys.
C10_WalkInvariant ==
  pc # "call" =>
    /\ 0 <= argIndex /\ argIndex <= specIndex
    /\ Len(preparedArgs) = n
    /\ \A v \in Values : Count(preparedArgs, v) = Count(args, v)
    /\ Len(bindings) = argIndex
    /\ \A i \in DOMAIN bindings :
         /\ bindings[i].arg = i - 1
         /\ bindings[i].key \in DOMAIN result
         /\ \A j \in DOMAIN bindings : bindings[i].arg = bindings[j].arg => i = j
    /\ \A k \in DOMAIN result :
         /\ \E i \in 1..n : result[k] = args[i]
         /\ \E i \in DOMAIN bindings : bindings[i].key = k
    /\ Cardinality(DOMAIN result) <= Min(N, n)

C10_Witness ==
  /\ pc = "done"
  /\ turningPoint = 1 /\ N = 3 /\ n = 3
  /\ specs = <<isNumber, Str(<<"b">>), isNumber>>
  /\ Len(bindings) = 3
  /\ Cardinality(DOMAIN result) = 2
====
